---- MODULE Spec2Model ----
(***************************************************************************)
(* Cloudinary proxy server: the Express pipeline of src/server.js and of   *)
(* src/unnamed/part_000 (another revision of the same server): route       *)
(* dispatch, authenticateToken, multer's upload.single('image'), the       *)
(* /upload handler with its upstream cloudinary.uploader.upload_stream     *)
(* call, the error middleware and the 404 handler.                         *)
(*                                                                         *)
(* The server keeps no state between requests, so a behaviour follows one  *)
(* request from its arrival to its response, under either server file and  *)
(* any environment.  multer and the Cloudinary SDK are libraries: multer   *)
(* yields req.file and req.body or an error for an oversize part, the SDK  *)
(* calls back once with a result or an error.  The filename field and the  *)
(* public_id derived from it are left out.                                 *)
(*                                                                         *)
(* A JavaScript string is a sequence of chunks (each chunk a run of        *)
(* characters, the separators " ", "|" and "=" being chunks of their own), *)
(* so that split and join act on it as they do on the characters.          *)
(***************************************************************************)
EXTENDS Integers, Sequences, FiniteSets, TLC

VARIABLES
  variant,        \* which server file runs: "part_000" or "server.js"
  env,            \* process.env: AUTH_TOKEN, UPLOAD_FOLDER
  pc,             \* where the request in flight is in the pipeline
  req,            \* method, path and JSON body fields of the request in flight
  authHeader,     \* req.headers['authorization'] as authenticateToken read it
  layer,          \* index in the route table of the layer handling the request
  image,          \* the `image` part of the multipart body as the client sent it
  file,           \* req.file after upload.single('image')
  body,           \* req.body after upload.single('image'): the metadata text field
  uploadOptions,  \* options handed to cloudinary.uploader.upload_stream
  upstreamCalls,  \* upload_stream calls started for the request in flight
  upstream,       \* the upstream call: "none", "pending", "resolved", "rejected"
  uploadResult,   \* result the upstream callback delivered
  error,          \* exception caught by the handler / passed to next(err)
  res,            \* the HTTP response sent for the request in flight
  trace           \* history: the stages the request has passed, in order

vars == <<variant, env, pc, req, authHeader, layer, image, file, body,
          uploadOptions, upstreamCalls, upstream, uploadResult, error, res, trace>>

-----------------------------------------------------------------------------
\* Bounds of the model.

\* most properties of a metadata object
MaxEntries == 2

-----------------------------------------------------------------------------
\* JavaScript values.

\* the value undefined, where a string may stand
Undefined == <<"<undefined>">>

\* JavaScript truthiness of a string-or-undefined value
Truthy(v) == v # Undefined /\ v # <<>>

\* a || b
OrElse(a, b) == IF Truthy(a) THEN a ELSE b

RECURSIVE Split(_, _)
\* String.prototype.split(sep): the pieces between the occurrences of sep
Split(s, sep) ==
  IF \E i \in 1..Len(s) : s[i] = sep
  THEN LET i == CHOOSE k \in 1..Len(s) :
                  s[k] = sep /\ \A j \in 1..(k - 1) : s[j] # sep
       IN  <<SubSeq(s, 1, i - 1)>> \o Split(SubSeq(s, i + 1, Len(s)), sep)
  ELSE <<s>>

RECURSIVE Join(_, _)
\* Array.prototype.join(sep)
Join(parts, sep) ==
  IF Len(parts) = 0 THEN <<>>
  ELSE IF Len(parts) = 1 THEN parts[1]
  ELSE parts[1] \o <<sep>> \o Join(Tail(parts), sep)

\* all sequences over S of length at most n
SeqsUpTo(S, n) == UNION {[1..k -> S] : k \in 0..n}

-----------------------------------------------------------------------------
\* Configuration and route tables.

\* the secret an operator configures as AUTH_TOKEN
Secret == <<"s3cret">>

\* process.env as the server may be started: AUTH_TOKEN and UPLOAD_FOLDER,
\* each set or unset
Environments ==
  {[AUTH_TOKEN |-> Secret,    UPLOAD_FOLDER |-> Undefined],
   [AUTH_TOKEN |-> Secret,    UPLOAD_FOLDER |-> <<"custom-folder">>],
   [AUTH_TOKEN |-> Undefined, UPLOAD_FOLDER |-> Undefined]}

Variants == {"part_000", "server.js"}

\* The layers app.get / app.post / app.use register, in registration order.
\* kind "error" is a four-argument error middleware, "use" matches any request.
RouteTable(v) ==
  IF v = "part_000"
  THEN << [kind |-> "route", method |-> "GET",  path |-> "/health", handler |-> "health"],
          [kind |-> "route", method |-> "POST", path |-> "/upload", handler |-> "upload@part_000:75"],
          [kind |-> "error", method |-> "*",    path |-> "*",       handler |-> "errorMiddleware"],
          [kind |-> "use",   method |-> "*",    path |-> "*",       handler |-> "notFound"] >>
  ELSE << [kind |-> "route", method |-> "GET",  path |-> "/health", handler |-> "health"],
          [kind |-> "route", method |-> "POST", path |-> "/upload", handler |-> "upload@server.js:86"],
          [kind |-> "error", method |-> "*",    path |-> "*",       handler |-> "errorMiddleware"],
          [kind |-> "use",   method |-> "*",    path |-> "*",       handler |-> "notFound"],
          [kind |-> "route", method |-> "POST", path |-> "/upload", handler |-> "upload@server.js:230"] >>

\* does a layer take a request that carries no error
Matches(l, r) ==
  \/ l.kind = "use"
  \/ l.kind = "route" /\ l.method = r.method /\ l.path = r.path

\* Express's router: the first layer, in registration order, that matches
\* (0 when none does)
Dispatch(v, r) ==
  LET t == RouteTable(v)
      hits == {i \in 1..Len(t) : Matches(t[i], r)}
  IN  IF hits = {} THEN 0 ELSE CHOOSE i \in hits : \A j \in hits : i <= j

\* next(err) from layer i: the first error middleware registered after it
\* (0 when none is: Express's built-in handler answers, not with JSON)
ErrorLayer(v, i) ==
  LET t == RouteTable(v)
      hits == {k \in (i + 1)..Len(t) : t[k].kind = "error"}
  IN  IF hits = {} THEN 0 ELSE CHOOSE k \in hits : \A j \in hits : k <= j

\* the handler the request in flight is in
Handler == IF layer = 0 THEN "none" ELSE RouteTable(variant)[layer].handler

UploadHandlers == {"upload@part_000:75", "upload@server.js:86", "upload@server.js:230"}

-----------------------------------------------------------------------------
\* Metadata: the JSON text of the `metadata` field and the object it parses to.

KTimestamp      == <<"timestamp">>
KBaseName       == <<"baseName">>
KMPVID          == <<"MPVID">>
KCustomTitle    == <<"context.custom.", "title">>
KCustomAlt      == <<"context.custom.", "alt">>
KCustomOther    == <<"context.custom.", "x">>
KTitleCaption   == <<"Title (caption)">>
KDescriptionAlt == <<"Description (alt)">>
KPlain          == <<"k">>
KIndex          == <<"1">>

\* property names a client may send
Keys == {KTimestamp, KBaseName, KMPVID, KCustomTitle, KCustomAlt, KCustomOther,
         KTitleCaption, KDescriptionAlt, KPlain, KIndex}

\* property values a client may send: "", "v", and "v|timestamp=w"
Values == {<<>>, <<"v">>, <<"v", "|", "timestamp", "=", "w">>}

\* JSON objects of at most MaxEntries properties, as lists of <<key, value>>
\* in the order the client wrote them, no key twice
Objects ==
  {o \in SeqsUpTo(Keys \X Values, MaxEntries) :
     \A i, j \in 1..Len(o) : i # j => o[i][1] # o[j][1]}

\* what req.body.metadata can be: no field, an empty field, the text of a JSON
\* object, text that is not JSON, the text `null`, the text of a number
MetadataFields ==
  {[kind |-> k, entries |-> <<>>] :
     k \in {"absent", "empty", "malformed", "null", "scalar"}}
  \cup {[kind |-> "object", entries |-> o] : o \in Objects}

\* an array index as a property name: enumerated before the other names
IsIndexKey(key) == key = KIndex

\* own enumerable properties in JavaScript's order: array-index names first,
\* then the others in insertion order
OwnPropertyOrder(entries) ==
  SelectSeq(entries, LAMBDA e : IsIndexKey(e[1]))
  \o SelectSeq(entries, LAMBDA e : ~IsIndexKey(e[1]))

\* JSON.parse(req.body.metadata || '{}'): thrown is TRUE for a SyntaxError
JsonParse(field) ==
  CASE field.kind \in {"absent", "empty"} ->
         [thrown |-> FALSE, kind |-> "object", entries |-> <<>>]
    [] field.kind = "object" ->
         [thrown |-> FALSE, kind |-> "object",
          entries |-> OwnPropertyOrder(field.entries)]
    [] field.kind = "malformed" ->
         [thrown |-> TRUE, kind |-> "none", entries |-> <<>>]
    [] OTHER ->
         [thrown |-> FALSE, kind |-> field.kind, entries |-> <<>>]

\* Object.entries(metadata) (a number has no own properties)
ObjectEntries(metadata) == metadata.entries

\* metadata[key]
Get(metadata, key) ==
  IF \E i \in 1..Len(metadata.entries) : metadata.entries[i][1] = key
  THEN metadata.entries[CHOOSE i \in 1..Len(metadata.entries) :
                          metadata.entries[i][1] = key][2]
  ELSE Undefined

\* key.startsWith(prefix), prefix one chunk
StartsWith(key, prefix) == Len(key) >= 1 /\ key[1] = prefix

\* the metadata key a handler reads the caption from (Undefined: it reads none)
CaptionKey(h) ==
  CASE h = "upload@part_000:75" -> KCustomTitle
    [] h = "upload@server.js:230" -> KTitleCaption
    [] OTHER -> Undefined

\* the metadata key a handler reads the alt text from
AltKey(h) ==
  CASE h = "upload@part_000:75" -> KCustomAlt
    [] h = "upload@server.js:230" -> KDescriptionAlt
    [] OTHER -> Undefined

\* builtInFields of a handler: caption and alt, Undefined when not set
BuiltInFields(h, metadata) ==
  [caption |-> IF CaptionKey(h) # Undefined /\ Truthy(Get(metadata, CaptionKey(h)))
               THEN Get(metadata, CaptionKey(h)) ELSE Undefined,
   alt     |-> IF AltKey(h) # Undefined /\ Truthy(Get(metadata, AltKey(h)))
               THEN Get(metadata, AltKey(h)) ELSE Undefined]

\* the filter that lets a metadata property into the context
InContext(h, key, value) ==
  CASE h = "upload@part_000:75" ->
         /\ ~StartsWith(key, "context.custom.")
         /\ key # KTimestamp
         /\ key # KBaseName
         /\ Truthy(value)
    [] h = "upload@server.js:230" ->
         /\ key # KTitleCaption /\ key # KDescriptionAlt
         /\ key # KTimestamp /\ key # KBaseName /\ Truthy(value)
    [] OTHER ->
         key # KTimestamp /\ key # KBaseName /\ Truthy(value)

\* contextData / contextEntries before serialisation
ContextData(h, metadata) ==
  SelectSeq(ObjectEntries(metadata), LAMBDA e : InContext(h, e[1], e[2]))

\* `${key}=${value}`
FormatEntry(e) == e[1] \o <<"=">> \o e[2]

\* contextString: the entries as key=value, joined by |
ContextString(h, metadata) ==
  LET d == ContextData(h, metadata)
  IN  Join([i \in 1..Len(d) |-> FormatEntry(d[i])], "|")

-----------------------------------------------------------------------------
\* Requests, responses, upstream outcomes.

\* the body fields the completion endpoint is specified to require
ClaudeFields == {"prompt", "fieldType", "targetLocale", "apiKey"}

\* requests a client may send: method, path, and the JSON body fields present
Requests ==
  {[method |-> m, path |-> p, fields |-> {}] :
     m \in {"GET", "POST"}, p \in {"/health", "/upload"}}
  \cup {[method |-> "POST", path |-> "/api/claude", fields |-> f] :
          f \in SUBSET ClaudeFields}

\* Authorization headers a client may send: none, "", "Bearer", "Bearer ",
\* "Bearer s3cret", "Bearer wrong", "s3cret", "Bearer  s3cret", "Bearer s3cret wrong"
Headers ==
  {Undefined, <<>>, <<"Bearer">>, <<"Bearer", " ">>,
   <<"Bearer", " ", "s3cret">>, <<"Bearer", " ", "wrong">>, <<"s3cret">>,
   <<"Bearer", " ", " ", "s3cret">>, <<"Bearer", " ", "s3cret", "wrong">>}

\* multer's fileSize limit, in bytes
FileSizeLimit == 10 * 1024 * 1024

\* the `image` part of the multipart body: none, or one of a size in bytes
NoFile == [present |-> FALSE, size |-> 0]
Files  == {[present |-> TRUE, size |-> n] : n \in {1, FileSizeLimit + 1}}

NoRequest  == [method |-> "none", path |-> "none", fields |-> {}]
NoBody     == [metadata |-> [kind |-> "absent", entries |-> <<>>]]
NoOptions  == [none |-> TRUE]
NoResult   == [none |-> TRUE]
NoError    == [name |-> "none", http_code |-> 0, message |-> "none", inner |-> Undefined]
NoResponse == [sent |-> FALSE, status |-> 0, json |-> FALSE, body |-> [none |-> TRUE]]

\* res.status(status).json(body)
Json(status, b) == [sent |-> TRUE, status |-> status, json |-> TRUE, body |-> b]

\* what the upstream callback can deliver as result: the asset descriptor
UpstreamResults ==
  { [secure_url |-> "https://res/a.png", url |-> "http://res/a.png",
     public_id |-> "figma-exports/a", width |-> 800, height |-> 600,
     format |-> "png", bytes |-> 1, created_at |-> "2024-01-01T00:00:00Z",
     caption |-> "a caption", alt |-> "an alt", context |-> "ctx-a",
     tags |-> "tags-a"],
    [secure_url |-> "https://res/b.jpg", url |-> "http://res/b.jpg",
     public_id |-> "figma-exports/b", width |-> 10, height |-> 20,
     format |-> "jpg", bytes |-> 2, created_at |-> "2024-02-02T00:00:00Z",
     caption |-> "undefined", alt |-> "undefined", context |-> "ctx-b",
     tags |-> "tags-b"] }

\* what the upstream callback can deliver as error: a provider rejection
\* (it carries http_code), or a network failure (http_code undefined, here 0);
\* inner is error.error?.message
UpstreamErrors ==
  { [name |-> "Error", http_code |-> 401, message |-> "Invalid api_key",
     inner |-> Undefined],
    [name |-> "Error", http_code |-> 0,   message |-> "getaddrinfo ENOTFOUND",
     inner |-> Undefined] }

-----------------------------------------------------------------------------
\* authenticateToken.

\* authHeader && authHeader.split(' ')[1]
BearerToken(h) ==
  IF ~Truthy(h) THEN h
  ELSE LET parts == Split(h, " ")
       IN  IF Len(parts) >= 2 THEN parts[2] ELSE Undefined

\* mutant of AuthVerdict: the comparison with the secret is left out
AuthVerdictNoCompare(h, e) ==
  IF ~Truthy(BearerToken(h)) THEN 401 ELSE 0

\* the guard's verdict: 401, 403, or 0 for next()
AuthVerdict(h, e) ==
  IF ~Truthy(BearerToken(h)) THEN 401
  ELSE IF BearerToken(h) # e.AUTH_TOKEN THEN 403
  ELSE 0

-----------------------------------------------------------------------------
\* The /upload handler.

\* process.env.UPLOAD_FOLDER || 'figma-exports'
TargetFolder(e) == OrElse(e.UPLOAD_FOLDER, <<"figma-exports">>)

\* mutant of Mpvid: the fallback to baseName is left out
MpvidNoFallback(metadata) == OrElse(Get(metadata, KMPVID), <<"unknown">>)

\* metadata.MPVID || metadata.baseName || 'unknown'
Mpvid(metadata) ==
  OrElse(Get(metadata, KMPVID), OrElse(Get(metadata, KBaseName), <<"unknown">>))

\* the options object passed to upload_stream
UploadOptions(h, e, metadata) ==
  [folder        |-> TargetFolder(e),
   resource_type |-> "image",
   context       |-> ContextString(h, metadata),
   tags          |-> IF h = "upload@part_000:75"
                     THEN <<<<"figma">>, <<"metadata-export">>, Mpvid(metadata)>>
                     ELSE <<<<"figma">>, <<"metadata-export">>>>,
   overwrite     |-> TRUE,
   caption       |-> BuiltInFields(h, metadata).caption,
   alt           |-> BuiltInFields(h, metadata).alt]

\* mutant of SuccessBody: url taken from the result's url, not its secure_url
SuccessBodyInsecureUrl(h, r) ==
  [success |-> TRUE, url |-> r.url, public_id |-> r.public_id,
   width |-> r.width, height |-> r.height, format |-> r.format,
   bytes |-> r.bytes, created_at |-> r.created_at,
   caption |-> r.caption, alt |-> r.alt]

\* the body of the success response
SuccessBody(h, r) ==
  IF h = "upload@server.js:86"
  THEN [success |-> TRUE, url |-> r.secure_url, public_id |-> r.public_id,
        width |-> r.width, height |-> r.height, format |-> r.format,
        bytes |-> r.bytes, created_at |-> r.created_at]
  ELSE [success |-> TRUE, url |-> r.secure_url, public_id |-> r.public_id,
        width |-> r.width, height |-> r.height, format |-> r.format,
        bytes |-> r.bytes, created_at |-> r.created_at,
        caption |-> r.caption, alt |-> r.alt]

\* mutant of CatchResponse: every caught error answered as a server error
CatchResponseGeneric(e) ==
  Json(500, [success |-> FALSE, error |-> <<"Upload failed">>,
             details |-> e.message])

\* the catch block: 400 for an error that carries http_code, else 500
CatchResponse(e) ==
  IF e.http_code # 0
  THEN Json(400, [success |-> FALSE,
                  error   |-> <<"Cloudinary error: ", e.message>>,
                  details |-> OrElse(e.inner, <<"Unknown Cloudinary error">>)])
  ELSE Json(500, [success |-> FALSE,
                  error   |-> <<"Upload failed">>,
                  details |-> e.message])

\* mutant of ThrownBeforeUpload: metadata that is no object is refused too
ThrownOnNonObject(parsed) ==
  IF parsed.thrown \/ parsed.kind # "object"
  THEN [name |-> "TypeError", http_code |-> 0,
        message |-> "metadata is not an object", inner |-> Undefined]
  ELSE NoError

\* the exception the synchronous part of the handler throws before the
\* upstream call, NoError when it throws none
ThrownBeforeUpload(parsed) ==
  IF parsed.thrown
  THEN [name |-> "SyntaxError", http_code |-> 0, message |-> "Unexpected token",
        inner |-> Undefined]
  ELSE IF parsed.kind = "null"
  THEN [name |-> "TypeError", http_code |-> 0,
        message |-> "Cannot read properties of null", inner |-> Undefined]
  ELSE NoError

-----------------------------------------------------------------------------
\* The pipeline, one action per layer or callback.

Init ==
  /\ variant \in Variants
  /\ env \in Environments
  /\ pc = "idle"
  /\ req = NoRequest
  /\ authHeader = Undefined
  /\ layer = 0
  /\ image = NoFile
  /\ file = NoFile
  /\ body = NoBody
  /\ uploadOptions = NoOptions
  /\ upstreamCalls = 0
  /\ upstream = "none"
  /\ uploadResult = NoResult
  /\ error = NoError
  /\ res = NoResponse
  /\ trace = <<>>

\* a request arrives and the router picks the first matching layer; nothing is
\* shared between requests, so a behaviour follows one request to its response
Receive(r) ==
  /\ req' = r
  /\ layer' = Dispatch(variant, r)
  /\ pc' = "routed"
  /\ authHeader' = Undefined
  /\ image' = NoFile
  /\ file' = NoFile
  /\ body' = NoBody
  /\ uploadOptions' = NoOptions
  /\ upstreamCalls' = 0
  /\ upstream' = "none"
  /\ uploadResult' = NoResult
  /\ error' = NoError
  /\ res' = NoResponse
  /\ trace' = <<>>
  /\ UNCHANGED <<variant, env>>

\* app.get('/health')
Health ==
  /\ pc = "routed"
  /\ Handler = "health"
  /\ res' = Json(200, [success |-> TRUE,
                       message |-> "Cloudinary proxy server is running",
                       timestamp |-> "now"])
  /\ pc' = "done"
  /\ trace' = Append(trace, "response")
  /\ UNCHANGED <<variant, env, req, authHeader, layer, image, file, body,
                 uploadOptions, upstreamCalls, upstream, uploadResult, error>>

\* app.use('*'): the 404 handler
NotFound ==
  /\ pc = "routed"
  /\ Handler = "notFound"
  /\ res' = Json(404, [success |-> FALSE,
                       error |-> <<"Endpoint not found">>,
                       available_endpoints |-> {"GET /health", "POST /upload"}])
  /\ pc' = "done"
  /\ trace' = Append(trace, "response")
  /\ UNCHANGED <<variant, env, req, authHeader, layer, image, file, body,
                 uploadOptions, upstreamCalls, upstream, uploadResult, error>>

\* authenticateToken, first middleware of the /upload route
AuthenticateToken(h) ==
  /\ authHeader' = h
  /\ IF AuthVerdict(h, env) = 401
     THEN /\ res' = Json(401, [success |-> FALSE, error |-> <<"Access token required">>])
          /\ trace' = trace \o <<"authenticateToken", "response">>
          /\ pc' = "done"
     ELSE IF AuthVerdict(h, env) = 403
     THEN /\ res' = Json(403, [success |-> FALSE, error |-> <<"Invalid access token">>])
          /\ trace' = trace \o <<"authenticateToken", "response">>
          /\ pc' = "done"
     ELSE /\ res' = res
          /\ trace' = Append(trace, "authenticateToken")
          /\ pc' = "multer"
  /\ UNCHANGED <<variant, env, req, layer, image, file, body, uploadOptions,
                 upstreamCalls, upstream, uploadResult, error>>

\* mutant of ExceedsLimit: multer configured without limits
ExceedsLimitNever(f) == FALSE

\* limits.fileSize: is the part larger than the limit
ExceedsLimit(f) == f.present /\ f.size > FileSizeLimit

\* upload.single('image'): reads the multipart body into req.file and req.body,
\* or passes a MulterError to next(err) when the part exceeds limits.fileSize
UploadSingle(f, m) ==
  /\ image' = f
  /\ trace' = Append(trace, "upload.single")
  /\ IF ExceedsLimit(f)
     THEN /\ error' = [name |-> "MulterError", http_code |-> 0,
                       message |-> "File too large", inner |-> Undefined]
          /\ layer' = ErrorLayer(variant, layer)
          /\ pc' = "error"
          /\ UNCHANGED <<file, body>>
     ELSE /\ file' = f
          /\ body' = [metadata |-> m]
          /\ pc' = "handler"
          /\ UNCHANGED <<error, layer>>
  /\ UNCHANGED <<variant, env, req, authHeader, uploadOptions, upstreamCalls,
                 upstream, uploadResult, res>>

\* the error middleware (err, req, res, next), or Express's own final handler
\* when no error middleware follows
ErrorMiddleware ==
  /\ pc = "error"
  /\ res' = IF layer = 0
            THEN [sent |-> TRUE, status |-> 500, json |-> FALSE,
                  body |-> [html |-> error.message]]
            ELSE Json(500, [success |-> FALSE,
                            error |-> <<"Internal server error">>,
                            details |-> "Something went wrong"])
  /\ pc' = "done"
  /\ trace' = trace \o <<"errorMiddleware", "response">>
  /\ UNCHANGED <<variant, env, req, authHeader, layer, image, file, body,
                 uploadOptions, upstreamCalls, upstream, uploadResult, error>>

\* mutant of MissingFile: the validation of req.file is left out
MissingFileNever(f) == FALSE

\* !req.file
MissingFile(f) == ~f.present

\* the /upload handler up to its await: validation, metadata split, and the
\* upload_stream call it starts
UploadHandler ==
  /\ pc = "handler"
  /\ LET parsed == JsonParse(body.metadata)
         thrown == ThrownBeforeUpload(parsed)
     IN  IF MissingFile(file)
         THEN /\ res' = Json(400, [success |-> FALSE,
                                   error |-> <<"No image file provided">>])
              /\ trace' = trace \o <<"handler", "response">>
              /\ pc' = "done"
              /\ UNCHANGED <<error, uploadOptions, upstreamCalls, upstream>>
         ELSE IF thrown # NoError
         THEN /\ error' = thrown
              /\ res' = CatchResponse(thrown)
              /\ trace' = trace \o <<"handler", "catch", "response">>
              /\ pc' = "done"
              /\ UNCHANGED <<uploadOptions, upstreamCalls, upstream>>
         ELSE /\ uploadOptions' = UploadOptions(Handler, env, parsed)
              /\ upstreamCalls' = upstreamCalls + 1
              /\ upstream' = "pending"
              /\ trace' = trace \o <<"handler", "upload_stream">>
              /\ pc' = "awaiting"
              /\ UNCHANGED <<error, res>>
  /\ UNCHANGED <<variant, env, req, authHeader, layer, image, file, body,
                 uploadResult>>

\* the upload_stream callback: resolve(result)
UploadResolved(r) ==
  /\ upstream' = "resolved"
  /\ uploadResult' = r
  /\ pc' = "settled"
  /\ trace' = Append(trace, "callback")
  /\ UNCHANGED <<variant, env, req, authHeader, layer, image, file, body,
                 uploadOptions, upstreamCalls, error, res>>

\* the upload_stream callback: reject(error)
UploadRejected(e) ==
  /\ upstream' = "rejected"
  /\ error' = e
  /\ pc' = "settled"
  /\ trace' = Append(trace, "callback")
  /\ UNCHANGED <<variant, env, req, authHeader, layer, image, file, body,
                 uploadOptions, upstreamCalls, uploadResult, res>>

\* the handler resumes after the await: the success response, or the catch block
UploadResume ==
  /\ pc = "settled"
  /\ res' = IF upstream = "resolved"
            THEN Json(200, SuccessBody(Handler, uploadResult))
            ELSE CatchResponse(error)
  /\ pc' = "done"
  /\ trace' = IF upstream = "resolved"
               THEN Append(trace, "response")
               ELSE trace \o <<"catch", "response">>
  /\ UNCHANGED <<variant, env, req, authHeader, layer, image, file, body,
                 uploadOptions, upstreamCalls, upstream, uploadResult, error>>

\* a client sends any request
Client ==
  /\ pc = "idle"
  /\ \E r \in Requests : Receive(r)

\* the /upload route runs its guard on the header the request carries
Guard ==
  /\ pc = "routed"
  /\ Handler \in UploadHandlers
  /\ \E h \in Headers : AuthenticateToken(h)

\* the multipart stage reads whatever body the request carries
Multipart ==
  /\ pc = "multer"
  /\ \E f \in {NoFile} \cup Files, m \in MetadataFields : UploadSingle(f, m)

\* the upstream call settles, with any result or any error
Settle ==
  /\ pc = "awaiting"
  /\ upstream = "pending"
  /\ \/ \E r \in UpstreamResults : UploadResolved(r)
     \/ \E e \in UpstreamErrors : UploadRejected(e)

Next ==
  \/ Client
  \/ Health
  \/ NotFound
  \/ Guard
  \/ Multipart
  \/ ErrorMiddleware
  \/ UploadHandler
  \/ Settle
  \/ UploadResume

Spec == Init /\ [][Next]_vars

-----------------------------------------------------------------------------
\* Properties.

\* the request has passed a stage
Passed(stage) == \E i \in 1..Len(trace) : trace[i] = stage

\* position of a stage in the history (0: not passed)
Position(stage) ==
  IF Passed(stage) THEN CHOOSE i \in 1..Len(trace) : trace[i] = stage ELSE 0

\* C1: on /upload the auth guard runs before multipart parsing and the handler;
\* a header that yields no token is answered 401, one that yields a token other
\* than the configured secret 403, in both cases without any upstream call; the
\* handler is reached only with a token equal to the secret.
C1_AuthGuardBeforeUpload ==
  /\ (Passed("upload.single") \/ Passed("handler") \/ upstreamCalls > 0)
       => /\ Position("authenticateToken") = 1
          /\ BearerToken(authHeader) = env.AUTH_TOKEN
  /\ (Handler \in UploadHandlers /\ Passed("authenticateToken"))
       => LET token == BearerToken(authHeader)
          IN  /\ ~Truthy(token)
                   => /\ pc = "done" /\ res.sent /\ res.status = 401
                      /\ upstreamCalls = 0 /\ upstream = "none"
                      /\ ~Passed("upload.single") /\ ~Passed("handler")
              /\ (Truthy(token) /\ token # env.AUTH_TOKEN)
                   => /\ pc = "done" /\ res.sent /\ res.status = 403
                      /\ upstreamCalls = 0 /\ upstream = "none"
                      /\ ~Passed("upload.single") /\ ~Passed("handler")

\* C1 witness: a request with a wrong token has been answered 403
C1_Witness ==
  /\ pc = "done"
  /\ req.path = "/upload"
  /\ BearerToken(authHeader) = <<"wrong">>
  /\ res.status = 403
  /\ upstreamCalls = 0

\* C2: an authenticated /upload request with no image part is answered 400
\* {success:false, error:"No image file provided"} and starts no upstream call.
C2_NoImageIs400 ==
  (Passed("upload.single") /\ ~image.present)
    => /\ upstreamCalls = 0
       /\ upstream = "none"
       /\ pc \in {"handler", "done"}
       /\ pc = "done"
            => res = Json(400, [success |-> FALSE,
                                error |-> <<"No image file provided">>])

\* C2 witness: such a request has been answered
C2_Witness ==
  /\ pc = "done"
  /\ Passed("handler")
  /\ ~image.present
  /\ res.status = 400

\* keys the context must not carry: timestamp, baseName
Denylist == {KTimestamp, KBaseName}

\* the caption key and the alt-text key of a handler (none for a handler that
\* reads no built-in field)
BuiltInKeys(h) == {CaptionKey(h), AltKey(h)} \ {Undefined}

\* the entries a reader of a context string finds: the string split on |, each
\* piece split on = (the empty string holds no entry)
Recover(context) ==
  IF context = <<>> THEN <<>>
  ELSE LET pieces == Split(context, "|")
       IN  [i \in 1..Len(pieces) |-> Split(pieces[i], "=")]

\* C3: the context string handed to the upstream upload holds no entry whose
\* key is timestamp or baseName or a built-in-field key of the serving handler.
C3_NoExcludedKeyInContext ==
  upstreamCalls > 0
    => \A i \in 1..Len(Recover(uploadOptions.context)) :
         Recover(uploadOptions.context)[i][1]
           \notin (Denylist \cup BuiltInKeys(Handler))

\* C3, as far as it holds: no excluded key is written as the key of an entry;
\* it holds of every metadata object none of whose values contains |
C3_HoldsWithoutSeparator ==
  (/\ upstreamCalls > 0
   /\ \A i \in 1..Len(body.metadata.entries) :
        \A j \in 1..Len(body.metadata.entries[i][2]) :
          body.metadata.entries[i][2][j] # "|")
    => \A i \in 1..Len(Recover(uploadOptions.context)) :
         Recover(uploadOptions.context)[i][1]
           \notin (Denylist \cup BuiltInKeys(Handler))

\* the pairs C4 expects back: those of the metadata as the client wrote it
\* whose key is neither denylisted nor a built-in-field key, in that order
ExpectedPairs ==
  SelectSeq(body.metadata.entries,
            LAMBDA e : e[1] \notin (Denylist \cup BuiltInKeys(Handler)))

\* C4: for metadata with no empty value, splitting the context string on | and
\* each piece on = gives back exactly the pairs whose key is neither built-in
\* nor denylisted, in the insertion order of the metadata.
C4_ContextRoundTrip ==
  (/\ upstreamCalls > 0
   /\ body.metadata.kind = "object"
   /\ \A i \in 1..Len(body.metadata.entries) :
        Truthy(body.metadata.entries[i][2]))
    => Recover(uploadOptions.context) = ExpectedPairs

\* C4, as far as it holds: the round trip is exact when no value contains | or
\* =, no key is an array index and no other key starts with context.custom.
C4_HoldsForPlainPairs ==
  (/\ upstreamCalls > 0
   /\ body.metadata.kind = "object"
   /\ \A i \in 1..Len(body.metadata.entries) :
        /\ body.metadata.entries[i][2] = <<"v">>
        /\ body.metadata.entries[i][1] \notin {KIndex, KCustomOther})
    => Recover(uploadOptions.context) = ExpectedPairs

\* an authenticated request with an image whose metadata JSON.parse accepts
\* has been through the synchronous part of the handler
C5_Parseable ==
  /\ Passed("handler")
  /\ image.present
  /\ body.metadata.kind # "malformed"

\* the response, once sent, follows the settled upstream call
C5_ResponseAfterSettle ==
  res.sent
    => /\ upstream \in {"resolved", "rejected"}
       /\ 0 < Position("upload_stream")
       /\ Position("upload_stream") < Position("callback")
       /\ Position("callback") < Position("response")

C6_UpstreamFailureEnvelope ==
  upstream = "rejected"
    => /\ pc \in {"settled", "done"}
       /\ pc = "done"
            => /\ res.sent /\ res.json
               /\ res.body.success = FALSE
               /\ {"error", "details"} \subseteq DOMAIN res.body
               /\ res.status = 400 <=> error.http_code # 0
               /\ error.http_code = 0
                    => (res.status = 500 /\ res.body.error = <<"Upload failed">>)
               /\ Passed("catch")
               /\ ~Passed("errorMiddleware")

\* C6 witness: a provider rejection has been relayed as 400
C6_Witness ==
  /\ pc = "done"
  /\ upstream = "rejected"
  /\ error.http_code # 0
  /\ res.status = 400

\* the field of the upstream result a response field re-exposes
UpstreamField(f) == IF f = "url" THEN "secure_url" ELSE f

\* the response re-exposes these fields, each equal to the upstream result's
ReExposes(fields) ==
  \A f \in fields :
    /\ f \in DOMAIN res.body
    /\ res.body[f] = uploadResult[UpstreamField(f)]

C8_ClaudeMissingFieldIs400 ==
  (/\ pc = "done"
   /\ req.method = "POST"
   /\ req.path = "/api/claude"
   /\ req.fields # ClaudeFields)
    => /\ res.status = 400
       /\ "error" \in DOMAIN res.body
       /\ upstreamCalls = 0

\* C9: an authenticated /upload whose image exceeds the 10 MiB limit is turned
\* away by the multipart stage: the handler is never entered, no upstream call
\* is made, and the error middleware answers with a JSON failure envelope.
C9_OversizeRejectedBeforeHandler ==
  (image.present /\ image.size > 10 * 1024 * 1024)
    => /\ ~Passed("handler")
       /\ ~file.present
       /\ upstreamCalls = 0
       /\ upstream = "none"
       /\ pc \in {"error", "done"}
       /\ pc = "done"
            => /\ Passed("errorMiddleware")
               /\ res.sent /\ res.json
               /\ res.status = 500
               /\ res.body.success = FALSE
               /\ "error" \in DOMAIN res.body

\* C9 witness: an oversize upload has been answered by the error middleware
C9_Witness ==
  /\ pc = "done"
  /\ Passed("authenticateToken")
  /\ image.present
  /\ image.size > 10 * 1024 * 1024
  /\ res.status = 500

\* C10: an authenticated /upload with an image whose metadata field is present
\* and is not parseable as a JSON object is answered 400 without any upstream
\* call; an absent or empty metadata field counts as {} and does not fail.
C10_BadMetadataIs400 ==
  (pc = "done" /\ Passed("handler") /\ image.present)
    => /\ body.metadata.kind \in {"malformed", "null", "scalar"}
            => (res.status = 400 /\ upstreamCalls = 0)
       /\ body.metadata.kind \in {"absent", "empty"}
            => (upstreamCalls = 1 /\ (upstream = "resolved" => res.status = 200))


\* the non-empty value the client gave a metadata key, Undefined when it gave
\* none
GivenValue(key) ==
  LET hits == {i \in 1..Len(body.metadata.entries) :
                 /\ body.metadata.entries[i][1] = key
                 /\ body.metadata.entries[i][2] # <<>>}
  IN  IF hits = {} THEN Undefined
      ELSE body.metadata.entries[CHOOSE i \in hits : TRUE][2]

\* the grouping identifier C11 describes: MPVID, else baseName, else `unknown`
GroupingId ==
  IF GivenValue(KMPVID) # Undefined THEN GivenValue(KMPVID)
  ELSE IF GivenValue(KBaseName) # Undefined THEN GivenValue(KBaseName)
  ELSE <<"unknown">>

\* the base folder as configured: UPLOAD_FOLDER, or the default
BaseFolder ==
  IF env.UPLOAD_FOLDER \in {Undefined, <<>>}
  THEN <<"figma-exports">> ELSE env.UPLOAD_FOLDER

\* the grouping handler has started its upstream call
C11_GroupingUpload == upstreamCalls > 0 /\ Handler = "upload@part_000:75"

====
